---- MODULE Spec2Model ----
\* A model of the sync pipeline of wptsync (src/main.go) and of its older
\* single-command variant sync-wpt (src/unnamed/part_000): configuration
\* validation, the per-entry loop, the download through a temporary file and
\* the patch application through `git apply`.
EXTENDS Integers, Sequences, FiniteSets, TLC

\* ------------------------------------------------------------------ bounds

\* The longest file list of a configuration.
MaxFiles == 2
\* The longest HTTP response body, in bytes.
MaxBody == 2
\* The most lines the scanner reads from a patch file.
MaxLines == 2

\* ------------------------------------------------------------- data model

\* A string the code inspects character by character (a src, a patch path, a
\* line of a patch file) is a sequence of one-character strings.

Slash == "/"
Space == " "

\* strings.TrimLeft(s, "/"): s without its leading slashes.
RECURSIVE TrimLeft(_)
TrimLeft(s) ==
    IF s # <<>> /\ Head(s) = Slash THEN TrimLeft(Tail(s)) ELSE s

\* The leading-whitespace half of strings.TrimSpace.
RECURSIVE TrimLeading(_)
TrimLeading(s) ==
    IF s # <<>> /\ Head(s) = Space THEN TrimLeading(Tail(s)) ELSE s

\* The trailing-whitespace half of strings.TrimSpace.
RECURSIVE TrimTrailing(_)
TrimTrailing(s) ==
    IF s # <<>> /\ s[Len(s)] = Space
    THEN TrimTrailing(SubSeq(s, 1, Len(s) - 1))
    ELSE s

\* strings.TrimSpace(s).
TrimSpace(s) == TrimTrailing(TrimLeading(s))

\* strings.HasPrefix(s, prefix).
HasPrefix(s, prefix) ==
    /\ Len(s) >= Len(prefix)
    /\ SubSeq(s, 1, Len(prefix)) = prefix

\* The literal "*** Begin Patch" of ensureSupportedPatchFormat.
Sentinel ==
    <<"*", "*", "*", " ", "B", "e", "g", "i", "n", " ", "P", "a", "t", "c", "h">>

\* The lines a patch file is made of: empty, blank, an indented sentinel with
\* trailing text, a unified-diff line, and a line holding the sentinel after
\* other text.
PatchLines ==
    { <<>>,
      <<" ">>,
      <<" ">> \o Sentinel \o <<":", " ">>,
      <<"d", "i", "f", "f">>,
      <<"+">> \o Sentinel }

\* All sequences over S of length at most n.
SeqsUpTo(S, n) == UNION {[1..k -> S] : k \in 0..n}

\* The file entries a configuration is built from (type fileSpec). Enabled is
\* the *bool: "nil", "true" or "false". Patch <<>> is the empty string.
FileSpecs ==
    { [Src |-> <<"a">>, Dst |-> "x", Enabled |-> "nil", Patch |-> <<>>],
      [Src |-> <<"/", "b">>, Dst |-> "y", Enabled |-> "true", Patch |-> <<"p">>],
      [Src |-> <<"/", "a">>, Dst |-> "x", Enabled |-> "false", Patch |-> <<"p">>],
      [Src |-> <<"/", "/", "a">>, Dst |-> "x", Enabled |-> "true", Patch |-> <<"p">>] }

\* The configurations loadConfig can return (type config).
Configs ==
    [Commit : {"", "deadbeef"}, TargetDir : {"", "out"},
     Files : SeqsUpTo(FileSpecs, MaxFiles)]

\* A file of the filesystem: absent, or present with its bytes.
Absent == [exists |-> FALSE, data |-> <<>>]
File(bytes) == [exists |-> TRUE, data |-> bytes]

\* The response bodies the server can send: n bytes, the k-th byte being k.
Bodies == {[k \in 1..n |-> k] : n \in 0..MaxBody}

\* What a destination holds before the run, when it holds something.
OldContent == <<9>>
\* What a destination holds after `git apply` changed it.
PatchedContent == <<7>>

\* isEnabled with the nil case lost: only an explicit true enables.
isEnabled_nilDisabled(f) == f.Enabled = "true"

\* fileSpec.isEnabled: Enabled == nil || *Enabled.
isEnabled(f) == f.Enabled = "nil" \/ f.Enabled = "true"

\* validate with the target_dir check lost.
validate_commitOnly(c) ==
    IF c.Commit = "" THEN "config: commit hash must be provided" ELSE "nil"

\* config.validate of wptsync.
validate(c) ==
    IF c.Commit = "" THEN "config: commit hash must be provided"
    ELSE IF c.TargetDir = "" THEN "config: target_dir must be provided"
    ELSE "nil"

\* config.validate of sync-wpt, which also refuses an empty file list.
validateLegacy(c) ==
    IF c.Commit = "" THEN "config: commit hash must be provided"
    ELSE IF c.TargetDir = "" THEN "config: target_dir must be provided"
    ELSE IF Len(c.Files) = 0 THEN "config: files list cannot be empty"
    ELSE "nil"

\* processFile: dest := filepath.Join(root, cfg.TargetDir, FromSlash(file.Dst)).
destOf(c, f) == <<"root", c.TargetDir, f.Dst>>

\* filepath.Dir(dest).
DirOf(dest) == <<dest[1], dest[2], "dir-" \o dest[3]>>

\* The destinations a run can touch.
Dests == {<<"root", "out", d>> : d \in {"x", "y"}}

\* ------------------------------------------------------------------ state

VARIABLES
    impl,          \* which command runs: "wptsync" (runSync) or "sync-wpt" (run)
    cfg,           \* the configuration file's content
    skipPatching,  \* flag -skip-patches
    dryRun,        \* flag -dry-run
    pc,            \* where the run is
    idx,           \* the position in cfg.Files of the loop
    fs,            \* the destination files
    dirs,          \* the directories that exist
    tmp,           \* the temporary file of the download in progress
    removeFailed,  \* whether os.Remove failed on the temporary file
    body,          \* the body of the last HTTP response
    preDest,       \* what dest held when the last download was called
    patchSeen,     \* os.Stat's answer on the patch file, and the lines read from it
    log,           \* standard output, line by line
    events,        \* the side effects performed, in order
    result,        \* what the run returned
    ctxExpired     \* whether the run's context has passed its deadline

vars ==
    <<impl, cfg, skipPatching, dryRun, pc, idx, fs, dirs, tmp, removeFailed, body,
      preDest, patchSeen, log, events, result, ctxExpired>>

inputs == <<impl, cfg, skipPatching, dryRun>>

\* What the run returned: nothing yet, nil, or an error. An error has a kind
\* (which call failed), the name its message carries, its cause, and the
\* position the loop was at when it was made (0 before the loop).
NoResult == [kind |-> "none", name |-> <<>>, cause |-> "", at |-> 0]
Success == [kind |-> "ok", name |-> <<>>, cause |-> "", at |-> 0]
Failure(kind, name, cause) ==
    [kind |-> kind, name |-> name, cause |-> cause, at |-> idx]

\* What the run knows of the patch file of the entry it is at.
NoPatchSeen == [stat |-> "none", lines |-> <<>>]

Line(kind, i, src, dest) == [kind |-> kind, i |-> i, src |-> src, dest |-> dest]
Event(op, i) == [op |-> op, i |-> i]

\* The entry the loop is at, and what processFile computes from it.
file == cfg.Files[idx]
src == TrimLeft(file.Src)
dest == destOf(cfg, file)

InitFs == [d \in Dests |-> IF d[3] = "x" THEN File(OldContent) ELSE Absent]
InitDirs == {DirOf(<<"root", "out", "x">>)}

\* Before the run: the configuration is on disk, destination x holds an older
\* download in an existing directory, destination y and its directory do not
\* exist.
Init ==
    /\ impl \in {"wptsync", "sync-wpt"}
    /\ cfg \in Configs
    /\ skipPatching \in BOOLEAN
    /\ dryRun \in BOOLEAN
    /\ pc = "start"
    /\ idx = 0
    /\ fs = InitFs
    /\ dirs = InitDirs
    /\ tmp = Absent
    /\ removeFailed = FALSE
    /\ body = <<>>
    /\ preDest = Absent
    /\ patchSeen = NoPatchSeen
    /\ log = <<>>
    /\ events = <<>>
    /\ result = NoResult
    /\ ctxExpired = FALSE

\* ---------------------------------------------------------------- the run

\* The loop going on after an entry's error instead of returning it.
Return_goOn(r) ==
    /\ result' = r
    /\ pc' = IF r.kind \in {"download", "patch"} THEN "loop" ELSE "done"

\* The run returns err.
Return(r) ==
    /\ result' = r
    /\ pc' = "done"

\* runSync up to its loop: loadConfig, validate, the empty-list return, the
\* context and the header line.
runSync_start ==
    /\ pc = "start"
    /\ impl = "wptsync"
    /\ \E loaded \in BOOLEAN :
          IF ~loaded
          THEN Return(Failure("load", <<>>, "open or decode config")) /\ UNCHANGED <<idx, log>>
          ELSE IF validate(cfg) # "nil"
          THEN Return(Failure("config", <<>>, validate(cfg))) /\ UNCHANGED <<idx, log>>
          ELSE IF Len(cfg.Files) = 0
          THEN /\ Return(Success)
               /\ log' = Append(log, Line("nofiles", 0, <<>>, <<>>))
               /\ UNCHANGED idx
          ELSE /\ pc' = "loop"
               /\ idx' = 1
               /\ log' = Append(log, Line("header", Len(cfg.Files), <<>>, <<>>))
               /\ UNCHANGED result
    /\ UNCHANGED removeFailed
    /\ UNCHANGED <<inputs, fs, dirs, tmp, body, preDest, patchSeen, events, ctxExpired>>

\* run of sync-wpt up to its loop: as runSync, with the stricter validate and
\* no empty-list return.
run_start ==
    /\ pc = "start"
    /\ impl = "sync-wpt"
    /\ \E loaded \in BOOLEAN :
          IF ~loaded
          THEN Return(Failure("load", <<>>, "open or decode config")) /\ UNCHANGED <<idx, log>>
          ELSE IF validateLegacy(cfg) # "nil"
          THEN Return(Failure("config", <<>>, validateLegacy(cfg))) /\ UNCHANGED <<idx, log>>
          ELSE /\ pc' = "loop"
               /\ idx' = 1
               /\ log' = Append(log, Line("header", Len(cfg.Files), <<>>, <<>>))
               /\ UNCHANGED result
    /\ UNCHANGED removeFailed
    /\ UNCHANGED <<inputs, fs, dirs, tmp, body, preDest, patchSeen, events, ctxExpired>>

\* The loop reaches a disabled entry: it reports it and goes on.
runSync_skip ==
    /\ pc = "loop"
    /\ idx <= Len(cfg.Files)
    /\ ~isEnabled(file)
    /\ log' = Append(log, Line("skip", idx, file.Src, <<>>))
    /\ idx' = idx + 1
    /\ UNCHANGED removeFailed
    /\ UNCHANGED <<inputs, pc, fs, dirs, tmp, body, preDest, patchSeen, events, result,
                   ctxExpired>>

\* The loop is over: the run returns nil.
runSync_return ==
    /\ pc = "loop"
    /\ idx > Len(cfg.Files)
    /\ Return(Success)
    /\ UNCHANGED removeFailed
    /\ UNCHANGED <<inputs, idx, fs, dirs, tmp, body, preDest, patchSeen, log, events,
                   ctxExpired>>

\* processFile without its dry-run return: it goes on to download.
processFile_plan_ignoresDryRun ==
    /\ pc = "loop"
    /\ idx <= Len(cfg.Files)
    /\ isEnabled(file)
    /\ log' = Append(log, Line("plan", idx, src, dest))
    /\ pc' = "http"
    /\ UNCHANGED removeFailed
    /\ UNCHANGED <<inputs, idx, fs, dirs, tmp, body, preDest, patchSeen, events, result,
                   ctxExpired>>

\* processFile without its progress line before the download.
processFile_plan_silent ==
    /\ pc = "loop"
    /\ idx <= Len(cfg.Files)
    /\ isEnabled(file)
    /\ IF dryRun
       THEN idx' = idx + 1 /\ UNCHANGED pc
       ELSE pc' = "http" /\ UNCHANGED idx
    /\ UNCHANGED removeFailed
    /\ UNCHANGED <<inputs, fs, dirs, tmp, body, preDest, patchSeen, log, events, result,
                   ctxExpired>>

\* processFile up to the call of download: the progress line, and the return
\* of a dry run.
processFile_plan ==
    /\ pc = "loop"
    /\ idx <= Len(cfg.Files)
    /\ isEnabled(file)
    /\ log' = Append(log, Line("plan", idx, src, dest))
    /\ IF dryRun
       THEN idx' = idx + 1 /\ UNCHANGED pc
       ELSE pc' = "http" /\ UNCHANGED idx
    /\ UNCHANGED removeFailed
    /\ UNCHANGED <<inputs, fs, dirs, tmp, body, preDest, patchSeen, events, result,
                   ctxExpired>>

\* --------------------------------------------------------------- download

\* download returns err to processFile, which wraps it with src and returns
\* it to the loop, which returns it.
downloadFails(cause) == Return(Failure("download", src, cause))

\* The deferred tmpFile.Close() and os.Remove(tmpFile.Name()) on a temporary
\* file holding f: the file is removed, or os.Remove fails and the file
\* stays; download drops the error of os.Remove either way.
removeTemp(f) ==
    \/ tmp' = Absent /\ UNCHANGED removeFailed
    \/ tmp' = f /\ removeFailed' = TRUE

\* The same deferred calls after os.Rename succeeded: the temporary name is
\* gone, os.Remove finds nothing under it and the files stay as they are.
removeRenamed(files) == files

\* The patch condition without its test of the patch field.
needsPatch_skipOnly(f) == ~skipPatching

\* The patch condition with its two halves joined by "and".
needsPatch_both(f) == ~(skipPatching /\ f.Patch = <<>>)

\* processFile after download returned nil: the patch is applied unless
\* skipPatching is set or the entry has none.
needsPatch(f) == ~(skipPatching \/ f.Patch = <<>>)

\* The request made without the run's context: the deadline does not stop it.
download_request_noCtx ==
    /\ pc = "http"
    /\ preDest' = fs[dest]
    /\ \/ /\ downloadFails("new request")
          /\ UNCHANGED <<events, body, ctxExpired>>
       \/ /\ events' = Append(events, Event("http", idx))
          /\ \/ downloadFails("http") /\ UNCHANGED <<body, ctxExpired>>
             \/ downloadFails("unexpected status") /\ UNCHANGED <<body, ctxExpired>>
             \/ \E b \in Bodies :
                   /\ body' = b
                   /\ pc' = "mkdir"
                   /\ UNCHANGED <<result, ctxExpired>>
    /\ UNCHANGED removeFailed
    /\ UNCHANGED <<inputs, idx, fs, dirs, tmp, patchSeen, log>>

\* http.NewRequestWithContext, http.DefaultClient.Do and the status check.
\* The request with os.MkdirAll ahead of the status check: an answer with
\* another status than 200 leaves the parent directory of dest behind.
download_request_mkdirFirst ==
    /\ pc = "http"
    /\ preDest' = fs[dest]
    /\ \/ /\ downloadFails("new request")
          /\ UNCHANGED <<events, body, ctxExpired, dirs>>
       \/ /\ ctxExpired
          /\ downloadFails("context deadline exceeded")
          /\ events' = Append(events, Event("http", idx))
          /\ UNCHANGED <<body, ctxExpired, dirs>>
       \/ /\ ~ctxExpired
          /\ events' = Append(events, Event("http", idx))
          /\ \/ downloadFails("http") /\ UNCHANGED <<body, ctxExpired, dirs>>
             \/ /\ downloadFails("context deadline exceeded")
                /\ ctxExpired' = TRUE
                /\ UNCHANGED <<body, dirs>>
             \/ /\ downloadFails("unexpected status")
                /\ dirs' = dirs \cup {DirOf(dest)}
                /\ UNCHANGED <<body, ctxExpired>>
             \/ \E b \in Bodies :
                   /\ body' = b
                   /\ pc' = "mkdir"
                   /\ UNCHANGED <<result, ctxExpired, dirs>>
    /\ UNCHANGED removeFailed
    /\ UNCHANGED <<inputs, idx, fs, tmp, patchSeen, log>>

\* A context past its deadline makes Do fail; otherwise the request fails, is
\* cut by the deadline, is answered with another status than 200, or is
\* answered with 200 and a body.
download_request ==
    /\ pc = "http"
    /\ preDest' = fs[dest]
    /\ \/ /\ downloadFails("new request")
          /\ UNCHANGED <<events, body, ctxExpired>>
       \/ /\ ctxExpired
          /\ downloadFails("context deadline exceeded")
          /\ events' = Append(events, Event("http", idx))
          /\ UNCHANGED <<body, ctxExpired>>
       \/ /\ ~ctxExpired
          /\ events' = Append(events, Event("http", idx))
          /\ \/ downloadFails("http") /\ UNCHANGED <<body, ctxExpired>>
             \/ /\ downloadFails("context deadline exceeded")
                /\ ctxExpired' = TRUE
                /\ UNCHANGED body
             \/ downloadFails("unexpected status") /\ UNCHANGED <<body, ctxExpired>>
             \/ \E b \in Bodies :
                   /\ body' = b
                   /\ pc' = "mkdir"
                   /\ UNCHANGED <<result, ctxExpired>>
    /\ UNCHANGED removeFailed
    /\ UNCHANGED <<inputs, idx, fs, dirs, tmp, patchSeen, log>>

\* os.MkdirAll(filepath.Dir(dest), 0o755).
download_mkdir ==
    /\ pc = "mkdir"
    /\ \/ /\ dirs' = dirs \cup {DirOf(dest)}
          /\ events' = Append(events, Event("mkdir", idx))
          /\ pc' = "tmp"
          /\ UNCHANGED result
       \/ /\ downloadFails("create destination directory")
          /\ UNCHANGED <<dirs, events>>
    /\ UNCHANGED removeFailed
    /\ UNCHANGED <<inputs, idx, fs, tmp, body, preDest, patchSeen, log, ctxExpired>>

\* os.CreateTemp(filepath.Dir(dest), ".wpt-download-*").
download_createTemp ==
    /\ pc = "tmp"
    /\ \/ /\ tmp' = File(<<>>)
          /\ events' = Append(events, Event("createTemp", idx))
          /\ pc' = "copy"
          /\ UNCHANGED result
       \/ /\ downloadFails("create temp file")
          /\ UNCHANGED <<tmp, events>>
    /\ UNCHANGED removeFailed
    /\ UNCHANGED <<inputs, idx, fs, dirs, body, preDest, patchSeen, log, ctxExpired>>

\* The copy writing straight into dest, with no temporary file in between.
download_copy_inPlace ==
    /\ pc = "copy"
    /\ events' = Append(events, Event("write", idx))
    /\ \/ /\ tmp' = File(body)
          /\ pc' = "sync"
          /\ UNCHANGED <<result, ctxExpired, fs, removeFailed>>
       \/ \E k \in 0..Len(body) :
             /\ downloadFails("write temp file")
             /\ removeTemp(File(SubSeq(body, 1, k)))
             /\ fs' = [fs EXCEPT ![dest] = File(SubSeq(body, 1, k))]
             /\ \/ UNCHANGED ctxExpired
                \/ ctxExpired' = TRUE
    /\ UNCHANGED <<inputs, idx, dirs, body, preDest, patchSeen, log>>

\* io.Copy(tmpFile, resp.Body): the whole body reaches the temporary file, or
\* the copy stops with an error after k bytes (a read cut by the deadline
\* included) and the deferred function removes the temporary file.
download_copy ==
    /\ pc = "copy"
    /\ events' = Append(events, Event("write", idx))
    /\ \/ /\ tmp' = File(body)
          /\ pc' = "sync"
          /\ UNCHANGED <<result, ctxExpired, removeFailed>>
       \/ \E k \in 0..Len(body) :
             /\ downloadFails("write temp file")
             /\ removeTemp(File(SubSeq(body, 1, k)))
             /\ \/ UNCHANGED ctxExpired
                \/ ctxExpired' = TRUE
    /\ UNCHANGED <<inputs, idx, fs, dirs, body, preDest, patchSeen, log>>

\* Sync returning its error with the temporary file left where it is.
download_sync_noCleanup ==
    /\ pc = "sync"
    /\ \/ pc' = "rename" /\ UNCHANGED result
       \/ downloadFails("sync temp file")
    /\ UNCHANGED <<tmp, removeFailed>>
    /\ UNCHANGED <<inputs, idx, fs, dirs, body, preDest, patchSeen, log, events,
                   ctxExpired>>

\* tmpFile.Sync().
download_sync ==
    /\ pc = "sync"
    /\ \/ pc' = "rename" /\ UNCHANGED <<result, tmp, removeFailed>>
       \/ downloadFails("sync temp file") /\ removeTemp(tmp)
    /\ UNCHANGED <<inputs, idx, fs, dirs, body, preDest, patchSeen, log, events,
                   ctxExpired>>

\* The new bytes written over dest without truncating it: what dest held
\* beyond the length of the body stays.
download_rename_noTruncate ==
    /\ pc = "rename"
    /\ \/ /\ fs' = [fs EXCEPT ![dest] =
                    File(tmp.data \o SubSeq(fs[dest].data, Len(tmp.data) + 1,
                                            Len(fs[dest].data)))]
          /\ tmp' = Absent
          /\ events' = Append(events, Event("rename", idx))
          /\ IF needsPatch(file)
             THEN pc' = "patch" /\ UNCHANGED idx
             ELSE pc' = "loop" /\ idx' = idx + 1
          /\ UNCHANGED <<result, removeFailed>>
       \/ /\ downloadFails("move file into place")
          /\ removeTemp(tmp)
          /\ UNCHANGED <<fs, events, idx>>
    /\ UNCHANGED <<inputs, dirs, body, preDest, patchSeen, log, ctxExpired>>

\* os.Rename(tmpFile.Name(), dest) and the return of download: on success the
\* temporary file becomes dest, the deferred removal finds no temporary file
\* any more, and processFile either returns to the loop or
\* goes on to applyPatch.
download_rename ==
    /\ pc = "rename"
    /\ \/ /\ fs' = removeRenamed([fs EXCEPT ![dest] = tmp])
          /\ tmp' = Absent
          /\ events' = Append(events, Event("rename", idx))
          /\ IF needsPatch(file)
             THEN pc' = "patch" /\ UNCHANGED idx
             ELSE pc' = "loop" /\ idx' = idx + 1
          /\ UNCHANGED <<result, removeFailed>>
       \/ /\ downloadFails("move file into place")
          /\ removeTemp(tmp)
          /\ UNCHANGED <<fs, events, idx>>
    /\ UNCHANGED <<inputs, dirs, body, preDest, patchSeen, log, ctxExpired>>

\* ------------------------------------------------------------- applyPatch

\* applyPatch (or ensureSupportedPatchFormat inside it) returns err to
\* processFile, which wraps it with the patch path.
patchFails(cause) == Return(Failure("patch", file.Patch, cause))

\* applyPatch: the path is resolved and os.Stat tells whether the patch file
\* exists.
applyPatch_stat ==
    /\ pc = "patch"
    /\ events' = Append(events, Event("applyPatch", idx))
    /\ \/ /\ patchSeen' = [stat |-> "missing", lines |-> <<>>]
          /\ patchFails("stat patch")
       \/ /\ patchSeen' = [stat |-> "found", lines |-> <<>>]
          /\ pc' = "open"
          /\ UNCHANGED result
    /\ UNCHANGED removeFailed
    /\ UNCHANGED <<inputs, idx, fs, dirs, tmp, body, preDest, log, ctxExpired>>

\* ensureSupportedPatchFormat: os.Open(path).
ensureSupportedPatchFormat_open ==
    /\ pc = "open"
    /\ \/ patchFails("open patch")
       \/ pc' = "scan" /\ UNCHANGED result
    /\ UNCHANGED removeFailed
    /\ UNCHANGED <<inputs, idx, fs, dirs, tmp, body, preDest, patchSeen, log, events,
                   ctxExpired>>

\* The loop body testing the prefix on the line as read, not as trimmed.
scanLine_untrimmedPrefix(text) ==
    IF TrimSpace(text) = <<>> THEN "continue"
    ELSE IF HasPrefix(text, Sentinel) THEN "reject"
    ELSE "break"

\* The body of the scanner loop on one line: a line that is blank once
\* trimmed is passed over, one that starts with the sentinel is refused, any
\* other line ends the loop.
scanLine(text) ==
    LET line == TrimSpace(text) IN
    IF line = <<>> THEN "continue"
    ELSE IF HasPrefix(line, Sentinel) THEN "reject"
    ELSE "break"

\* ensureSupportedPatchFormat: one turn of `for scanner.Scan()`. Scan returns
\* false at the end of the file or on a read error; otherwise the loop body
\* runs on the line read.
ensureSupportedPatchFormat_scan ==
    /\ pc = "scan"
    /\ \/ pc' = "git" /\ UNCHANGED <<result, patchSeen>>
       \/ patchFails("read patch") /\ UNCHANGED patchSeen
       \/ /\ Len(patchSeen.lines) < MaxLines
          /\ \E text \in PatchLines :
                /\ patchSeen' = [patchSeen EXCEPT !.lines = Append(@, text)]
                /\ CASE scanLine(text) = "continue" -> UNCHANGED <<pc, result>>
                     [] scanLine(text) = "reject" -> patchFails("apply_patch format")
                     [] scanLine(text) = "break" -> pc' = "git" /\ UNCHANGED result
    /\ UNCHANGED removeFailed
    /\ UNCHANGED <<inputs, idx, fs, dirs, tmp, body, preDest, log, events, ctxExpired>>

\* exec.CommandContext(ctx, "git", "apply", ...).Run(): a context past its
\* deadline keeps the command from starting; otherwise git runs and applies
\* the patch (changing dest or, for an empty patch, nothing), fails, or is
\* killed at the deadline.
applyPatch_git ==
    /\ pc = "git"
    /\ \/ /\ ctxExpired
          /\ patchFails("context deadline exceeded")
          /\ UNCHANGED <<events, fs, idx, patchSeen, ctxExpired>>
       \/ /\ ~ctxExpired
          /\ events' = Append(events, Event("git", idx))
          /\ \/ /\ \/ UNCHANGED fs
                   \/ fs' = [fs EXCEPT ![dest] = File(PatchedContent)]
                /\ pc' = "loop"
                /\ idx' = idx + 1
                /\ patchSeen' = NoPatchSeen
                /\ UNCHANGED <<result, ctxExpired>>
             \/ /\ patchFails("git apply failed")
                /\ UNCHANGED <<fs, idx, patchSeen, ctxExpired>>
             \/ /\ patchFails("git apply failed: killed")
                /\ ctxExpired' = TRUE
                /\ UNCHANGED <<fs, idx, patchSeen>>
    /\ UNCHANGED removeFailed
    /\ UNCHANGED <<inputs, dirs, tmp, body, preDest, log>>

\* The deadline of context.WithTimeout(context.Background(), 2*time.Minute)
\* passes while the run is between two operations.
ctx_timeout ==
    /\ pc \notin {"start", "done"}
    /\ ~ctxExpired
    /\ ctxExpired' = TRUE
    /\ UNCHANGED removeFailed
    /\ UNCHANGED <<inputs, pc, idx, fs, dirs, tmp, body, preDest, patchSeen, log, events,
                   result>>

Next ==
    \/ runSync_start
    \/ run_start
    \/ runSync_skip
    \/ runSync_return
    \/ processFile_plan
    \/ download_request
    \/ download_mkdir
    \/ download_createTemp
    \/ download_copy
    \/ download_sync
    \/ download_rename
    \/ applyPatch_stat
    \/ ensureSupportedPatchFormat_open
    \/ ensureSupportedPatchFormat_scan
    \/ applyPatch_git
    \/ ctx_timeout

Spec == Init /\ [][Next]_vars

\* ------------------------------------------------------------- properties

\* The entry at position j, and whether the events hold operation op of it.
entry(j) == cfg.Files[j]
Did(op, j) == \E k \in 1..Len(events) : events[k] = Event(op, j)

\* The run returned an error of download or of applyPatch.
EntryFailed == result.kind \in {"download", "patch"}

\* C1: when download returns an error, from any of its steps up to and
\* including the rename, dest holds what it held when download was called:
\* it is absent if it was absent, and otherwise has its earlier bytes, never
\* a part of the new body.
C1_FailedDownloadLeavesDest ==
    result.kind = "download" =>
        fs[destOf(cfg, entry(result.at))] = preDest

\* C1's case: the copy of a body of two bytes or more failed over a
\* destination that held a file.
C1_Witness ==
    /\ result.kind = "download"
    /\ result.cause = "write temp file"
    /\ Len(body) >= 2
    /\ preDest = File(OldContent)

\* C2: the side effects follow the order of the file list; when the entry at
\* position i fails, no later entry has any side effect, every enabled entry
\* before i was downloaded (and patched when it has a patch and patches are
\* not skipped), and the error carries the failing entry's src, stripped of
\* its leading slashes, for a download and its patch path for a patch.
C2_OrderedFailFast ==
    /\ \A a \in 1..(Len(events) - 1) : events[a].i <= events[a + 1].i
    /\ EntryFailed =>
          LET i == result.at IN
          /\ i \in 1..Len(cfg.Files)
          /\ \A k \in 1..Len(events) : events[k].i <= i
          /\ \A k \in 1..Len(log) : log[k].kind \in {"plan", "skip"} => log[k].i <= i
          /\ \A j \in 1..(i - 1) :
                entry(j).Enabled # "false" =>
                    /\ Did("http", j) /\ Did("rename", j)
                    /\ (~skipPatching /\ entry(j).Patch # <<>>) => Did("git", j)
          /\ result.kind = "download" => result.name = TrimLeft(entry(i).Src)
          /\ result.kind = "patch" => result.name = entry(i).Patch

\* C2's case: the second of two enabled entries failed after the first was
\* downloaded.
C2_Witness ==
    /\ EntryFailed
    /\ result.at = 2
    /\ Len(cfg.Files) >= 2
    /\ Did("rename", 1)

\* C3: an entry with enabled false has no side effect, no progress line and
\* is never the entry an error is about; an entry the loop has passed with
\* enabled absent or true has its progress line.
C3_DisabledUntouched ==
    /\ \A k \in 1..Len(events) : entry(events[k].i).Enabled # "false"
    /\ \A k \in 1..Len(log) :
          log[k].kind = "plan" => entry(log[k].i).Enabled # "false"
    /\ EntryFailed => entry(result.at).Enabled # "false"
    /\ \A j \in 1..Len(cfg.Files) :
          (pc # "start" /\ j < idx) =>
              IF entry(j).Enabled = "false"
              THEN \E k \in 1..Len(log) : log[k].kind = "skip" /\ log[k].i = j
              ELSE \E k \in 1..Len(log) : log[k].kind = "plan" /\ log[k].i = j

\* C3's case: a run went past a disabled entry, downloaded the entry after
\* it and returned nil.
C3_Witness ==
    /\ result.kind = "ok"
    /\ \E j \in 1..Len(cfg.Files) :
          /\ entry(j).Enabled = "false"
          /\ j < Len(cfg.Files)
          /\ entry(j + 1).Enabled = "nil"
          /\ Did("rename", j + 1)

\* The progress lines of the log, and what a run that reaches every entry
\* prints: one line per entry that is not disabled, in list order.
IsPlan(l) == l.kind = "plan"
PlanLog == SelectSeq(log, IsPlan)
NotDisabled(j) == entry(j).Enabled # "false"
EnabledPositions == SelectSeq([j \in 1..Len(cfg.Files) |-> j], NotDisabled)
Planned ==
    [k \in 1..Len(EnabledPositions) |->
        LET j == EnabledPositions[k] IN
        Line("plan", j, TrimLeft(entry(j).Src), <<"root", cfg.TargetDir, entry(j).Dst>>)]
IsPrefix(a, b) == Len(a) <= Len(b) /\ SubSeq(b, 1, Len(a)) = a

\* C4: a dry run makes no request, invokes no patch and leaves files,
\* directories and temporary files as they were; the progress lines of any
\* run are the first lines of the one list the configuration fixes, and a
\* dry run that ends, like a real run in which nothing fails, has printed
\* that whole list.
C4_DryRunOnlyReports ==
    /\ dryRun => (events = <<>> /\ fs = InitFs /\ dirs = InitDirs /\ tmp = Absent)
    /\ IsPrefix(PlanLog, Planned)
    /\ (pc = "done" /\ result.kind = "ok" /\ cfg.Files # <<>>) => PlanLog = Planned
    /\ (dryRun /\ pc = "done") => ~EntryFailed

\* C4's case: a dry run over two enabled entries, one with a patch, ended.
C4_Witness ==
    /\ dryRun
    /\ pc = "done"
    /\ result.kind = "ok"
    /\ Len(PlanLog) = 2
    /\ \E j \in 1..Len(cfg.Files) : entry(j).Enabled # "false" /\ entry(j).Patch # <<>>

\* C5: with skipPatching and without dryRun, applyPatch and git are never
\* invoked, and every enabled entry the loop has passed was requested and
\* renamed into place.
C5_SkipPatchesStillDownloads ==
    (skipPatching /\ ~dryRun) =>
        /\ \A k \in 1..Len(events) : events[k].op \notin {"applyPatch", "git"}
        /\ pc \notin {"patch", "open", "scan", "git"}
        /\ \A j \in 1..Len(cfg.Files) :
              (pc # "start" /\ j < idx /\ entry(j).Enabled # "false") =>
                  Did("http", j) /\ Did("rename", j)

\* C5's case: a run with skipPatching downloaded an entry that has a patch
\* and returned nil.
C5_Witness ==
    /\ skipPatching
    /\ ~dryRun
    /\ result.kind = "ok"
    /\ \E j \in 1..Len(cfg.Files) : entry(j).Patch # <<>> /\ Did("rename", j)

\* Whether the run got past validate: the configuration was loaded and no
\* configuration error was returned.
Validated == pc # "start" /\ result.kind \notin {"load", "config"}
Refused == pc # "start" /\ result.kind = "config"

\* C6 as stated: in both commands, the configuration passes validate exactly
\* when commit and target_dir are non-empty, whatever the file list.
C6_Original ==
    (pc # "start" /\ result.kind # "load") =>
        (Validated <=> (cfg.Commit # "" /\ cfg.TargetDir # ""))

\* C6 amended: in wptsync the configuration passes validate exactly when
\* commit and target_dir are non-empty, whatever the file list; in sync-wpt
\* it passes exactly when, besides, the file list is not empty.
C6_ValidatePerCommand ==
    (pc # "start" /\ result.kind # "load") =>
        /\ Validated \/ Refused
        /\ impl = "wptsync" =>
              (Validated <=> (cfg.Commit # "" /\ cfg.TargetDir # ""))
        /\ impl = "sync-wpt" =>
              (Validated <=> (cfg.Commit # "" /\ cfg.TargetDir # "" /\ cfg.Files # <<>>))

\* C6's case: wptsync accepted a configuration with an empty file list.
C6_Witness ==
    /\ impl = "wptsync"
    /\ cfg.Files = <<>>
    /\ pc = "done"
    /\ result.kind = "ok"

\* A line of only spaces, and a line whose first character after its
\* leading spaces starts the sentinel.
IsBlank(l) == \A c \in 1..Len(l) : l[c] = Space
BeginsWithSentinel(l) ==
    \E n \in 0..Len(l) :
        /\ \A c \in 1..n : l[c] = Space
        /\ Len(l) >= n + Len(Sentinel)
        /\ SubSeq(l, n + 1, n + Len(Sentinel)) = Sentinel
\* The first non-blank line among those read begins with the sentinel.
SentinelFirst(lines) ==
    \E k \in 1..Len(lines) :
        /\ \A j \in 1..(k - 1) : IsBlank(lines[j])
        /\ ~IsBlank(lines[k])
        /\ BeginsWithSentinel(lines[k])
GitStarts == Len(events') > Len(events) /\ events'[Len(events')].op = "git"

\* C7: git is started only from the step after the checks, for a patch file
\* that os.Stat found and whose first non-blank line does not begin with the
\* sentinel; once the patch file is missing, or its first non-blank line
\* begins with the sentinel, the run has returned a patch error and git was
\* not started for the entry.
C7_ChecksBeforeGit ==
    [][ /\ GitStarts =>
              /\ pc = "git"
              /\ patchSeen.stat = "found"
              /\ ~SentinelFirst(patchSeen.lines)
        /\ (patchSeen'.stat = "missing" \/ SentinelFirst(patchSeen'.lines)) =>
              /\ result'.kind = "patch"
              /\ result'.name = file.Patch
              /\ ~GitStarts
              /\ \A k \in 1..Len(events') : events'[k] # Event("git", idx)
        /\ pc' = "git" => (patchSeen'.stat = "found" /\ ~SentinelFirst(patchSeen'.lines))
      ]_vars

\* C7's case: the scanner passed a blank line, met an indented sentinel line
\* and the run returned the format error.
C7_Witness ==
    /\ result.kind = "patch"
    /\ result.cause = "apply_patch format"
    /\ Len(patchSeen.lines) = 2
    /\ IsBlank(patchSeen.lines[1])
    /\ Head(patchSeen.lines[2]) = Space
    /\ ~Did("git", result.at)

\* C8: the step in which download returns nil leaves dest present and
\* holding exactly the bytes of the response body.
C8_DestEqualsBody ==
    [][ (pc = "rename" /\ pc' \in {"patch", "loop"}) =>
            /\ fs'[dest].exists
            /\ fs'[dest].data = body
            /\ tmp' = Absent
      ]_vars

\* C8's case: a body of zero bytes was downloaded over a destination that
\* held a file, which is now present and empty.
C8_Witness ==
    /\ pc = "patch"
    /\ body = <<>>
    /\ preDest = File(OldContent)
    /\ fs[dest] = File(<<>>)

\* C9 as stated: a run during which the deadline passed does not return nil
\* (stated of the runs that have started a download, leaving aside those with
\* nothing to do).
C9_Original == (events # <<>> /\ ctxExpired /\ pc = "done") => result.kind # "ok"

\* C9 amended: the deadline is one for the run, so once passed it stays
\* passed for every later entry; a request or a git command started after
\* it fails and the run returns that error; an operation it cuts fails the
\* run.
C9_SharedBudget ==
    [][ /\ ctxExpired => ctxExpired'
        /\ (ctxExpired /\ pc = "http") =>
              (result'.kind = "download" /\ result'.at = idx)
        /\ (ctxExpired /\ pc = "git") =>
              (result'.kind = "patch" /\ result'.at = idx)
        /\ (~ctxExpired /\ ctxExpired' /\ pc' # pc) => EntryFailed'
      ]_vars

\* C9's case: the deadline passed while the first entry was being written,
\* and the run failed at the request of the second.
C9_Witness ==
    /\ ctxExpired
    /\ result.kind = "download"
    /\ result.cause = "context deadline exceeded"
    /\ result.at = 2
    /\ Did("rename", 1)
    /\ Did("http", 2)

\* C10: whatever side effect an entry has had, its progress line is in the
\* log; when the run has failed on an entry, the last line of the log is
\* that entry's progress line.
C10_ProgressBeforeAction ==
    /\ \A k \in 1..Len(events) :
          \E n \in 1..Len(log) : log[n].kind = "plan" /\ log[n].i = events[k].i
    /\ pc \in {"http", "mkdir", "tmp", "copy", "sync", "rename", "patch", "open",
               "scan", "git"} =>
          (log # <<>> /\ log[Len(log)] = Line("plan", idx, src, dest))
    /\ EntryFailed =>
          /\ log # <<>>
          /\ log[Len(log)].kind = "plan"
          /\ log[Len(log)].i = result.at

\* C10's case: the patch of the second entry failed.
C10_Witness ==
    /\ result.kind = "patch"
    /\ result.at = 2
    /\ Len(PlanLog) = 2

\* The state of the entry at position j, read off the log, the events and
\* the result. An entry whose rename succeeded and that has no patch to apply
\* is Written and Unpatched in one step, the return of processFile; Patched
\* and Unpatched entries are done. The entries of a dry run stay Planned.
HasLine(kind, j) == \E n \in 1..Len(log) : log[n].kind = kind /\ log[n].i = j
stateOf(j) ==
    IF HasLine("skip", j) THEN "Skipped"
    ELSE IF ~HasLine("plan", j) THEN "Pending"
    ELSE IF EntryFailed /\ result.at = j THEN "Failed"
    ELSE IF Did("git", j) THEN "Patched"
    ELSE IF Did("rename", j) THEN (IF idx > j THEN "Unpatched" ELSE "Written")
    ELSE IF Did("http", j) THEN "Fetched"
    ELSE "Planned"
Transitions ==
    { <<"Pending", "Skipped">>, <<"Pending", "Planned">>, <<"Planned", "Fetched">>,
      <<"Fetched", "Written">>, <<"Fetched", "Unpatched">>, <<"Written", "Patched">>,
      <<"Planned", "Failed">>, <<"Fetched", "Failed">>, <<"Written", "Failed">> }

\* C11: every step leaves each entry in its state or moves it along one of
\* the transitions. The events only grow, one event at a time, so that what
\* holds of each event when it is added holds of the whole run: no entry is
\* requested, renamed into place or patched twice; an entry is written and
\* renamed only after its request, and applyPatch and git are invoked for it
\* only after its rename and only when its patch field is not empty.
C11_EntryStateMachine ==
    [][ /\ \A j \in 1..Len(cfg.Files) :
              LET s == stateOf(j)
                  t == stateOf(j)'
              IN  s = t \/ <<s, t>> \in Transitions
        /\ events' # events =>
              LET e == events'[Len(events')] IN
              /\ events' = Append(events, e)
              /\ e.op \in {"http", "rename", "applyPatch", "git"} => ~Did(e.op, e.i)
              /\ e.op \in {"mkdir", "createTemp", "write", "rename"} => Did("http", e.i)
              /\ e.op \in {"applyPatch", "git"} =>
                    /\ Did("rename", e.i)
                    /\ entry(e.i).Patch # <<>>
      ]_vars

\* C11's case: the first entry was fetched, written and patched, the second
\* was fetched and written and failed in its patch.
C11_Witness ==
    /\ Len(cfg.Files) = 2
    /\ stateOf(1) = "Patched"
    /\ stateOf(2) = "Failed"
    /\ Did("rename", 2)

\* download is between os.CreateTemp and its return.
HasTemp == pc \in {"copy", "sync", "rename"}

RequestErrors == {"new request", "http", "context deadline exceeded",
                  "unexpected status"}

\* C13: a call of download that ends at the request or at the status check
\* changes nothing on the filesystem: the files, dest among them, and the
\* directories are what they were, and there is no temporary file.
C13_FailedRequestTouchesNothing ==
    [][ (pc = "http" /\ result'.kind = "download") =>
            /\ result'.cause \in RequestErrors
            /\ fs' = fs
            /\ fs'[dest] = preDest'
            /\ dirs' = dirs
            /\ tmp = Absent /\ tmp' = Absent
            /\ ~Did("mkdir", idx)' /\ ~Did("createTemp", idx)'
      ]_vars

\* C13's case: the server answered with another status than 200 for an
\* entry whose destination directory does not exist, and it still does not.
C13_Witness ==
    /\ result.kind = "download"
    /\ result.cause = "unexpected status"
    /\ Did("http", result.at)
    /\ DirOf(destOf(cfg, entry(result.at))) \notin dirs
    /\ tmp = Absent

====
